---- MODULE Spec2Model ----
(***************************************************************************)
(* Model of the arithmetic-expression front end: the position-tracking     *)
(* lexer (lexer.rs), the recursive-descent parser and its diagnostics      *)
(* (parser.rs), the tree-walking evaluator (interpreter.rs) and the        *)
(* compiler to reverse Polish notation (compiler.rs).                      *)
(*                                                                         *)
(* Bytes are their ASCII codes, a Location is the pair <<start, end>>, an  *)
(* Annotation<T> is the record [value, location], a Result is the record   *)
(* [ok |-> TRUE, val] or [ok |-> FALSE, err].                              *)
(***************************************************************************)
EXTENDS Integers, Sequences, FiniteSets, TLC

VARIABLES
    input,      \* the text given to from_str (lex's input_bytes)
    index,      \* lex: the position in input_bytes
    tokens,     \* lex: the tokens pushed so far; parse: its argument
    pc,         \* where the pipeline stands
    lexed,      \* what lex returned
    parsed,     \* whether parse has been called
    cursor,     \* the number of tokens parse took from its iterator
    result,     \* what from_str (or parse) returned
    evaluated,  \* what Interpreter::eval returned
    diagnostic, \* what show_diagnostic printed
    compiled    \* what RpnCompiler::compile returned

vars == <<input, index, tokens, pc, lexed, parsed, cursor, result, evaluated, diagnostic,
          compiled>>

----------------------------------------------------------------------------
(* Bounds of the model. *)

\* deepest nesting of parentheses wrapped around an accepted expression
MaxNest == 2

\* longest input text of the text pipeline
MaxLen == 4

\* longest token sequence handed to parse directly
MaxToks == 5

----------------------------------------------------------------------------
(* Byte literals of lexer.rs. *)

B_PLUS == 43
B_MINUS == 45
B_ASTERISK == 42
B_SLASH == 47
B_LPAREN == 40
B_RPAREN == 41
B_ZERO == 48
B_NINE == 57
B_SPACE == 32
B_TAB == 9
B_NEWLINE == 10
\* the bytes the input texts are made of: '0', '1', the operators, the
\* parentheses, the blanks, and '@' (64), a byte lex knows no token for
Bytes == {B_ZERO, B_ZERO + 1, B_PLUS, B_MINUS, B_ASTERISK, B_SLASH, B_LPAREN,
          B_RPAREN, B_SPACE, B_TAB, B_NEWLINE, 64}

None == [none |-> TRUE]

Ok(v) == [ok |-> TRUE, val |-> v]
Err(e) == [ok |-> FALSE, err |-> e]

----------------------------------------------------------------------------
(* lexer.rs *)

Location(s, e) == <<s, e>>

min(a, b) == IF a <= b THEN a ELSE b
max(a, b) == IF a >= b THEN a ELSE b

\* merge taking the larger bound on both sides
merge_max_both(self, other) == Location(max(self[1], other[1]), max(self[2], other[2]))

merge(self, other) == Location(min(self[1], other[1]), max(self[2], other[2]))

Annotation(value, location) == [value |-> value, location |-> location]

TokenNumber(n, location) == Annotation([kind |-> "Number", n |-> n], location)
TokenPlus(location) == Annotation([kind |-> "Plus"], location)
TokenMinus(location) == Annotation([kind |-> "Minus"], location)
TokenAsterisk(location) == Annotation([kind |-> "Asterisk"], location)
TokenSlash(location) == Annotation([kind |-> "Slash"], location)
TokenLParen(location) == Annotation([kind |-> "LParen"], location)
TokenRParen(location) == Annotation([kind |-> "RParen"], location)

LexErrorInvalidChar(c, location) == Annotation([kind |-> "InvalidChar", c |-> c], location)
LexErrorEof(location) == Annotation([kind |-> "Eof"], location)

is_number(byte) == B_ZERO <= byte /\ byte <= B_NINE

is_space(byte) == byte = B_SPACE \/ byte = B_TAB \/ byte = B_NEWLINE

\* the bytes lex dispatches to lex_one_byte
OneByte == {B_PLUS, B_MINUS, B_ASTERISK, B_SLASH, B_LPAREN, B_RPAREN}

\* input_bytes[index], the index being 0-based
ByteAt(in, i) == in[i + 1]

\* the loop of lex_number: the index after the digits from i on
RECURSIVE number_end(_, _)
number_end(in, i) ==
    IF i < Len(in) /\ is_number(ByteAt(in, i)) THEN number_end(in, i + 1) ELSE i

\* the digits of u64::MAX = 18446744073709551615, most significant first
U64_MAX_DIGITS == <<1, 8, 4, 4, 6, 7, 4, 4, 0, 7, 3, 7, 0, 9, 5, 5, 1, 6, 1, 5>>

\* the index of the first digit of in[i..end) that is not a zero, or end
RECURSIVE skip_zeros(_, _, _)
skip_zeros(in, i, end) ==
    IF i < end /\ ByteAt(in, i) = B_ZERO THEN skip_zeros(in, i + 1, end) ELSE i

\* the digits in[s + k - 1 ..] read as a number are above those of u64::MAX
\* from its k-th digit on
RECURSIVE above_u64_max(_, _, _)
above_u64_max(in, s, k) ==
    IF k > Len(U64_MAX_DIGITS) THEN FALSE
    ELSE LET d == ByteAt(in, s + k - 1) - B_ZERO
         IN  IF d > U64_MAX_DIGITS[k] THEN TRUE
             ELSE IF d < U64_MAX_DIGITS[k] THEN FALSE
             ELSE above_u64_max(in, s, k + 1)

\* str::parse::<u64> returns Err(PosOverflow): the value of the digits
\* in[start..end) is above u64::MAX
u64_overflows(in, start, end) ==
    LET s == skip_zeros(in, start, end)
    IN  \/ end - s > Len(U64_MAX_DIGITS)
        \/ end - s = Len(U64_MAX_DIGITS) /\ above_u64_max(in, s, 1)

\* str::parse::<u64> on the digits in[start..end), most significant first,
\* where it returns Ok
RECURSIVE parse_u64(_, _, _)
parse_u64(in, start, end) ==
    IF end <= start THEN 0
    ELSE parse_u64(in, start, end - 1) * 10 + (ByteAt(in, end - 1) - B_ZERO)

\* lex_number taking a single digit instead of the whole run
lex_number_one_digit(in, i) ==
    [panic |-> FALSE, index |-> i + 1,
     token |-> TokenNumber(parse_u64(in, i, i + 1), Location(i, i + 1))]

\* lex_number: the new index and the token pushed, or the panic of unwrap()
\* on the Err of parse
lex_number(in, i) ==
    LET start == i
        end == number_end(in, i)
    IN  IF u64_overflows(in, start, end)
        THEN [panic |-> TRUE, index |-> end]
        ELSE [panic |-> FALSE, index |-> end,
              token |-> TokenNumber(parse_u64(in, start, end), Location(start, end))]

\* skip_spaces: the new index
RECURSIVE skip_spaces(_, _)
skip_spaces(in, i) ==
    IF i < Len(in) /\ is_space(ByteAt(in, i)) THEN skip_spaces(in, i + 1) ELSE i

\* consume_byte: Ok(new index) or the error
consume_byte(in, i, expected) ==
    IF Len(in) <= i THEN Err(LexErrorEof(Location(i, i)))
    ELSE IF ByteAt(in, i) # expected
         THEN Err(LexErrorInvalidChar(ByteAt(in, i), Location(i, i + 1)))
         ELSE Ok(i + 1)

create_one_byte_token(byte, start_index, end_index) ==
    CASE byte = B_PLUS -> TokenPlus(Location(start_index, end_index))
      [] byte = B_MINUS -> TokenMinus(Location(start_index, end_index))
      [] byte = B_ASTERISK -> TokenAsterisk(Location(start_index, end_index))
      [] byte = B_SLASH -> TokenSlash(Location(start_index, end_index))
      [] byte = B_LPAREN -> TokenLParen(Location(start_index, end_index))
      [] byte = B_RPAREN -> TokenRParen(Location(start_index, end_index))

\* lex_one_byte: Ok([index, token]) or the error of consume_byte
lex_one_byte(in, i, byte) ==
    LET start == i
        c == consume_byte(in, i, byte)
    IN  IF c.ok
        THEN Ok([index |-> c.val, token |-> create_one_byte_token(byte, start, c.val)])
        ELSE c

\* the error lex returns at a byte of no token: the 1-based position instead
invalid_char_one_based(in, i) ==
    Err(LexErrorInvalidChar(ByteAt(in, i), Location(i + 1, i + 2)))

\* the error lex returns at a byte of no token
invalid_char(in, i) ==
    Err(LexErrorInvalidChar(ByteAt(in, i), Location(i, i + 1)))

----------------------------------------------------------------------------
(* parser.rs: operators, syntax trees and errors *)

UnaryOperatorPlus(location) == Annotation("Plus", location)
UnaryOperatorMinus(location) == Annotation("Minus", location)

BinaryOperatorAdd(location) == Annotation("Add", location)
BinaryOperatorSub(location) == Annotation("Sub", location)
BinaryOperatorMulti(location) == Annotation("Multi", location)
BinaryOperatorDiv(location) == Annotation("Div", location)

AstNum(number, location) == Annotation([kind |-> "Num", n |-> number], location)

AstUnary(operator, operand, location) ==
    Annotation([kind |-> "Unary", operator |-> operator, operand |-> operand], location)

AstBinary(operator, left, right, location) ==
    Annotation([kind |-> "Binary", operator |-> operator, left |-> left, right |-> right],
               location)

\* the variants of ParseError that carry a token, and Eof
ParseError(kind, tok) == [kind |-> kind, tok |-> tok]
ParseErrorEof == [kind |-> "Eof"]

ApplicationErrorLexer(e) == [stage |-> "Lexer", e |-> e]
ApplicationErrorParser(e) == [stage |-> "Parser", e |-> e]

----------------------------------------------------------------------------
(* parser.rs: the recursive-descent parser.  The Peekable iterator is the  *)
(* token vector with pos, the number of tokens taken from it so far; each  *)
(* rule returns its Result with the position it leaves the iterator at.    *)

HasNext(toks, pos) == pos < Len(toks)

\* the token peek() or next() yields when there is one
NextTok(toks, pos) == toks[pos + 1]

Ret(res, pos) == [res |-> res, pos |-> pos]

\* parse_expr3_op taking the token with next() before it looks at it
parse_expr3_op_next_first(toks, pos) ==
    IF ~HasNext(toks, pos) THEN Ret(Err(ParseErrorEof), pos)
    ELSE LET tok == NextTok(toks, pos)
         IN  CASE tok.value.kind = "Plus" -> Ret(Ok(BinaryOperatorAdd(tok.location)), pos + 1)
               [] tok.value.kind = "Minus" -> Ret(Ok(BinaryOperatorSub(tok.location)), pos + 1)
               [] OTHER -> Ret(Err(ParseError("NotOperator", tok)), pos + 1)

parse_expr3_op(toks, pos) ==
    IF ~HasNext(toks, pos) THEN Ret(Err(ParseErrorEof), pos)
    ELSE LET tok == NextTok(toks, pos)
         IN  CASE tok.value.kind = "Plus" -> Ret(Ok(BinaryOperatorAdd(tok.location)), pos + 1)
               [] tok.value.kind = "Minus" -> Ret(Ok(BinaryOperatorSub(tok.location)), pos + 1)
               [] OTHER -> Ret(Err(ParseError("NotOperator", tok)), pos)

parse_expr2_op(toks, pos) ==
    IF ~HasNext(toks, pos) THEN Ret(Err(ParseErrorEof), pos)
    ELSE LET tok == NextTok(toks, pos)
         IN  CASE tok.value.kind = "Asterisk" -> Ret(Ok(BinaryOperatorMulti(tok.location)), pos + 1)
               [] tok.value.kind = "Slash" -> Ret(Ok(BinaryOperatorDiv(tok.location)), pos + 1)
               [] OTHER -> Ret(Err(ParseError("NotOperator", tok)), pos)

\* the two operator parsers handed to the wrong levels
op_parser_swapped(level, toks, pos) ==
    IF level = "expr3" THEN parse_expr2_op(toks, pos) ELSE parse_expr3_op(toks, pos)

\* the op_parser parse_expr3 and parse_expr2 pass to parse_left_binop
op_parser(level, toks, pos) ==
    IF level = "expr3" THEN parse_expr3_op(toks, pos) ELSE parse_expr2_op(toks, pos)

\* the node one turn of the loop of parse_left_binop folds left and right into
fold_binop(op, left, right) ==
    AstBinary(op, left, right, merge(left.location, right.location))

RECURSIVE parse_expr(_, _)
RECURSIVE parse_expr3(_, _)
RECURSIVE parse_expr2(_, _)
RECURSIVE parse_left_binop(_, _, _)
RECURSIVE left_binop_loop(_, _, _, _)
RECURSIVE subexpr_parser(_, _, _)
RECURSIVE parse_expr1(_, _)
RECURSIVE parse_atom(_, _)

\* parse_atom reporting Eof where the closing parenthesis is missing
parse_atom_eof_for_unclosed(toks, pos) ==
    IF ~HasNext(toks, pos) THEN Ret(Err(ParseErrorEof), pos)
    ELSE LET tok == NextTok(toks, pos)
         IN  CASE tok.value.kind = "Number" ->
                    Ret(Ok(AstNum(tok.value.n, tok.location)), pos + 1)
               [] tok.value.kind = "LParen" ->
                    LET exp == parse_expr(toks, pos + 1)
                    IN  IF ~exp.res.ok THEN exp
                        ELSE IF ~HasNext(toks, exp.pos)
                             THEN Ret(Err(ParseErrorEof), exp.pos)
                             ELSE LET t == NextTok(toks, exp.pos)
                                  IN  IF t.value.kind = "RParen"
                                      THEN Ret(exp.res, exp.pos + 1)
                                      ELSE Ret(Err(ParseError("RedundantExpression", t)),
                                               exp.pos + 1)
               [] OTHER -> Ret(Err(ParseError("NotExpression", tok)), pos + 1)

\* parse_atom reading only a product between the parentheses
parse_atom_paren_expr2(toks, pos) ==
    IF ~HasNext(toks, pos) THEN Ret(Err(ParseErrorEof), pos)
    ELSE LET tok == NextTok(toks, pos)
         IN  CASE tok.value.kind = "Number" ->
                    Ret(Ok(AstNum(tok.value.n, tok.location)), pos + 1)
               [] tok.value.kind = "LParen" ->
                    LET exp == parse_expr2(toks, pos + 1)
                    IN  IF ~exp.res.ok THEN exp
                        ELSE IF ~HasNext(toks, exp.pos)
                             THEN Ret(Err(ParseError("UnclosedOpenParen", tok)), exp.pos)
                             ELSE LET t == NextTok(toks, exp.pos)
                                  IN  IF t.value.kind = "RParen"
                                      THEN Ret(exp.res, exp.pos + 1)
                                      ELSE Ret(Err(ParseError("RedundantExpression", t)),
                                               exp.pos + 1)
               [] OTHER -> Ret(Err(ParseError("NotExpression", tok)), pos + 1)

parse_atom(toks, pos) ==
    IF ~HasNext(toks, pos) THEN Ret(Err(ParseErrorEof), pos)
    ELSE LET tok == NextTok(toks, pos)
         IN  CASE tok.value.kind = "Number" ->
                    Ret(Ok(AstNum(tok.value.n, tok.location)), pos + 1)
               [] tok.value.kind = "LParen" ->
                    LET exp == parse_expr(toks, pos + 1)
                    IN  IF ~exp.res.ok THEN exp
                        ELSE IF ~HasNext(toks, exp.pos)
                             THEN Ret(Err(ParseError("UnclosedOpenParen", tok)), exp.pos)
                             ELSE LET t == NextTok(toks, exp.pos)
                                  IN  IF t.value.kind = "RParen"
                                      THEN Ret(exp.res, exp.pos + 1)
                                      ELSE Ret(Err(ParseError("RedundantExpression", t)),
                                               exp.pos + 1)
               [] OTHER -> Ret(Err(ParseError("NotExpression", tok)), pos + 1)

\* parse_expr1 reading a signed expression, not an atom, after the sign
parse_expr1_stacking(toks, pos) ==
    IF HasNext(toks, pos) /\ NextTok(toks, pos).value.kind \in {"Plus", "Minus"}
    THEN LET tok == NextTok(toks, pos)
             op == IF tok.value.kind = "Plus"
                   THEN UnaryOperatorPlus(tok.location)
                   ELSE UnaryOperatorMinus(tok.location)
             atom == parse_expr1(toks, pos + 1)
         IN  IF ~atom.res.ok THEN atom
             ELSE Ret(Ok(AstUnary(op, atom.res.val,
                                  merge(op.location, atom.res.val.location))),
                      atom.pos)
    ELSE parse_atom(toks, pos)

parse_expr1(toks, pos) ==
    IF HasNext(toks, pos) /\ NextTok(toks, pos).value.kind \in {"Plus", "Minus"}
    THEN LET tok == NextTok(toks, pos)
             op == IF tok.value.kind = "Plus"
                   THEN UnaryOperatorPlus(tok.location)
                   ELSE UnaryOperatorMinus(tok.location)
             atom == parse_atom(toks, pos + 1)
         IN  IF ~atom.res.ok THEN atom
             ELSE Ret(Ok(AstUnary(op, atom.res.val,
                                  merge(op.location, atom.res.val.location))),
                      atom.pos)
    ELSE parse_atom(toks, pos)

\* the subexpr_parser parse_expr3 and parse_expr2 pass to parse_left_binop
subexpr_parser(level, toks, pos) ==
    IF level = "expr3" THEN parse_expr2(toks, pos) ELSE parse_expr1(toks, pos)

\* the loop of parse_left_binop grouping to the right: the right operand is
\* the whole rest of the chain
left_binop_loop_right_assoc(level, toks, pos, left) ==
    IF ~HasNext(toks, pos) THEN Ret(Ok(left), pos)
    ELSE LET op == op_parser(level, toks, pos)
         IN  IF ~op.res.ok THEN Ret(Ok(left), op.pos)
             ELSE LET right == parse_left_binop(level, toks, op.pos)
                  IN  IF ~right.res.ok THEN right
                      ELSE Ret(Ok(fold_binop(op.res.val, left, right.res.val)), right.pos)

\* the loop of parse_left_binop handing on the error of op_parser instead of
\* ending the loop
left_binop_loop_propagating(level, toks, pos, left) ==
    IF ~HasNext(toks, pos) THEN Ret(Ok(left), pos)
    ELSE LET op == op_parser(level, toks, pos)
         IN  IF ~op.res.ok THEN op
             ELSE LET right == subexpr_parser(level, toks, op.pos)
                  IN  IF ~right.res.ok THEN right
                      ELSE left_binop_loop(level, toks, right.pos,
                                           fold_binop(op.res.val, left, right.res.val))

\* the loop of parse_left_binop, left being the tree folded so far
left_binop_loop(level, toks, pos, left) ==
    IF ~HasNext(toks, pos) THEN Ret(Ok(left), pos)
    ELSE LET op == op_parser(level, toks, pos)
         IN  IF ~op.res.ok THEN Ret(Ok(left), op.pos)
             ELSE LET right == subexpr_parser(level, toks, op.pos)
                  IN  IF ~right.res.ok THEN right
                      ELSE left_binop_loop(level, toks, right.pos,
                                           fold_binop(op.res.val, left, right.res.val))

parse_left_binop(level, toks, pos) ==
    LET left == subexpr_parser(level, toks, pos)
    IN  IF ~left.res.ok THEN left
        ELSE left_binop_loop(level, toks, left.pos, left.res.val)

parse_expr2(toks, pos) == parse_left_binop("expr2", toks, pos)

parse_expr3(toks, pos) == parse_left_binop("expr3", toks, pos)

parse_expr(toks, pos) == parse_expr3(toks, pos)

\* parse returning the expression without looking for a token after it
parse_ignoring_rest(toks) == parse_expr(toks, 0)

\* parse, with the position its iterator ends at
parse(toks) ==
    LET ret == parse_expr(toks, 0)
    IN  IF ~ret.res.ok THEN ret
        ELSE IF HasNext(toks, ret.pos)
             THEN Ret(Err(ParseError("RedundantExpression", NextTok(toks, ret.pos))),
                      ret.pos + 1)
             ELSE Ret(ret.res, ret.pos)

\* from_str handing a lexer error on as a parser error
from_str_wrong_stage(lx) ==
    IF ~lx.ok
    THEN [res |-> Err(ApplicationErrorParser(lx.err)), parsed |-> FALSE, cursor |-> 0]
    ELSE LET p == parse(lx.val)
         IN  [res |-> IF p.res.ok THEN p.res ELSE Err(ApplicationErrorParser(p.res.err)),
              parsed |-> TRUE, cursor |-> p.pos]

\* <Ast as FromStr>::from_str once lex(s) has returned lx: the Result, whether
\* parse was called, and where parse left its iterator
from_str(lx) ==
    IF ~lx.ok
    THEN [res |-> Err(ApplicationErrorLexer(lx.err)), parsed |-> FALSE, cursor |-> 0]
    ELSE LET p == parse(lx.val)
         IN  [res |-> IF p.res.ok THEN p.res ELSE Err(ApplicationErrorParser(p.res.err)),
              parsed |-> TRUE, cursor |-> p.pos]

----------------------------------------------------------------------------
(* parser.rs: diagnostics *)

\* the caret show_diagnostic underlines with
B_CARET == 94

\* str::repeat
RECURSIVE repeat(_, _)
repeat(byte, n) == IF n <= 0 THEN <<>> ELSE <<byte>> \o repeat(byte, n - 1)

\* print_annote: the two lines printed; loc.1 - loc.0 is a usize subtraction,
\* which cannot go below zero
print_annote(in, loc) ==
    IF loc[2] < loc[1] THEN [panic |-> TRUE, loc |-> loc]
    ELSE [panic |-> FALSE, loc |-> loc, line1 |-> in,
          line2 |-> repeat(B_SPACE, loc[1]) \o repeat(B_CARET, loc[2] - loc[1])]

\* the Location of show_diagnostic with RedundantExpression left at its token
diagnostic_loc_not_widened(self, in) ==
    IF self.stage = "Lexer" THEN self.e.location
    ELSE CASE self.e.kind \in {"UnexpectedToken", "NotExpression", "NotOperator",
                               "UnclosedOpenParen", "RedundantExpression"} ->
                    self.e.tok.location
           [] self.e.kind = "Eof" -> Location(Len(in), Len(in) + 1)

\* the Location show_diagnostic underlines for the error self
diagnostic_loc(self, in) ==
    IF self.stage = "Lexer" THEN self.e.location
    ELSE CASE self.e.kind \in {"UnexpectedToken", "NotExpression", "NotOperator",
                               "UnclosedOpenParen"} -> self.e.tok.location
           [] self.e.kind = "RedundantExpression" -> Location(self.e.tok.location[1], Len(in))
           [] self.e.kind = "Eof" -> Location(Len(in), Len(in) + 1)

show_diagnostic(self, in) == print_annote(in, diagnostic_loc(self, in))

----------------------------------------------------------------------------
(* interpreter.rs *)

InterpreterError(kind, location) == Annotation(kind, location)

\* i64 division, which truncates towards zero
i64_div(left, right) ==
    LET abs(x) == IF x < 0 THEN -x ELSE x
        q == abs(left) \div abs(right)
    IN  IF (left < 0) = (right < 0) THEN q ELSE -q

eval_uniop(operator, operand) ==
    IF operator.value = "Plus" THEN operand ELSE -operand

\* Result<i64, InterpreterErrorKind>
eval_binop(operator, left, right) ==
    CASE operator.value = "Add" -> Ok(left + right)
      [] operator.value = "Sub" -> Ok(left - right)
      [] operator.value = "Multi" -> Ok(left * right)
      [] operator.value = "Div" ->
            IF right = 0 THEN Err("DivisionByZero") ELSE Ok(i64_div(left, right))

RECURSIVE eval(_)

\* eval evaluating the right operand before the left
eval_right_first(expr) ==
    CASE expr.value.kind = "Num" -> Ok(expr.value.n)
      [] expr.value.kind = "Unary" ->
            LET operand == eval(expr.value.operand)
            IN  IF ~operand.ok THEN operand
                ELSE Ok(eval_uniop(expr.value.operator, operand.val))
      [] expr.value.kind = "Binary" ->
            LET right == eval(expr.value.right)
            IN  IF ~right.ok THEN right
                ELSE LET left == eval(expr.value.left)
                     IN  IF ~left.ok THEN left
                         ELSE LET r == eval_binop(expr.value.operator, left.val, right.val)
                              IN  IF r.ok THEN r
                                  ELSE Err(InterpreterError(r.err, expr.location))

eval(expr) ==
    CASE expr.value.kind = "Num" -> Ok(expr.value.n)
      [] expr.value.kind = "Unary" ->
            LET operand == eval(expr.value.operand)
            IN  IF ~operand.ok THEN operand
                ELSE Ok(eval_uniop(expr.value.operator, operand.val))
      [] expr.value.kind = "Binary" ->
            LET left == eval(expr.value.left)
            IN  IF ~left.ok THEN left
                ELSE LET right == eval(expr.value.right)
                     IN  IF ~right.ok THEN right
                         ELSE LET r == eval_binop(expr.value.operator, left.val, right.val)
                              IN  IF r.ok THEN r
                                  ELSE Err(InterpreterError(r.err, expr.location))

----------------------------------------------------------------------------
(* compiler.rs: the compiler to reverse Polish notation.  A String is the  *)
(* sequence of its bytes.                                                  *)

\* u64::to_string: the decimal digits, most significant first
RECURSIVE to_string(_)
to_string(n) ==
    IF n < 10 THEN <<B_ZERO + n>>
    ELSE to_string(n \div 10) \o <<B_ZERO + (n % 10)>>

\* compile_uniop: what it pushes on the buffer
compile_uniop(operator) ==
    CASE operator.value = "Plus" -> <<B_PLUS>>
      [] operator.value = "Minus" -> <<B_MINUS>>

\* compile_binop: what it pushes on the buffer
compile_binop(operator) ==
    CASE operator.value = "Add" -> <<B_PLUS>>
      [] operator.value = "Sub" -> <<B_MINUS>>
      [] operator.value = "Multi" -> <<B_ASTERISK>>
      [] operator.value = "Div" -> <<B_SLASH>>

RECURSIVE compile_inner(_, _)

\* compile_inner leaving out the separator before a binary operator
compile_inner_no_space(expr, buf) ==
    CASE expr.value.kind = "Num" -> buf \o to_string(expr.value.n)
      [] expr.value.kind = "Unary" ->
           compile_inner(expr.value.operand, buf \o compile_uniop(expr.value.operator))
      [] expr.value.kind = "Binary" ->
           LET b1 == compile_inner(expr.value.left, buf) \o <<B_SPACE>>
               b2 == compile_inner(expr.value.right, b1)
           IN  b2 \o compile_binop(expr.value.operator)

\* compile_inner: the buffer after expr has been appended to buf
compile_inner(expr, buf) ==
    CASE expr.value.kind = "Num" -> buf \o to_string(expr.value.n)
      [] expr.value.kind = "Unary" ->
           compile_inner(expr.value.operand, buf \o compile_uniop(expr.value.operator))
      [] expr.value.kind = "Binary" ->
           LET b1 == compile_inner(expr.value.left, buf) \o <<B_SPACE>>
               b2 == compile_inner(expr.value.right, b1) \o <<B_SPACE>>
           IN  b2 \o compile_binop(expr.value.operator)

\* RpnCompiler::compile
compile(expr) == compile_inner(expr, <<>>)

----------------------------------------------------------------------------
(* The scan loop of lex, one action per arm of its match. *)

InLoop == pc = "lex" /\ index < Len(input)

LexOneByte ==
    /\ InLoop
    /\ ByteAt(input, index) \in OneByte
    /\ LET r == lex_one_byte(input, index, ByteAt(input, index))
       IN  IF r.ok
           THEN /\ index' = r.val.index
                /\ tokens' = Append(tokens, r.val.token)
                /\ UNCHANGED <<pc, lexed>>
           ELSE /\ lexed' = r
                /\ pc' = "lexed"
                /\ UNCHANGED <<index, tokens>>
    /\ UNCHANGED <<input, parsed, cursor, result, evaluated, diagnostic, compiled>>

LexNumber ==
    /\ InLoop
    /\ ByteAt(input, index) \notin OneByte
    /\ is_number(ByteAt(input, index))
    /\ LET r == lex_number(input, index)
       IN  /\ index' = r.index
           /\ IF r.panic
              THEN pc' = "panic" /\ UNCHANGED tokens
              ELSE tokens' = Append(tokens, r.token) /\ UNCHANGED pc
    /\ UNCHANGED <<input, lexed, parsed, cursor, result, evaluated, diagnostic, compiled>>

LexSkipSpaces ==
    /\ InLoop
    /\ ByteAt(input, index) \notin OneByte
    /\ ~is_number(ByteAt(input, index))
    /\ is_space(ByteAt(input, index))
    /\ index' = skip_spaces(input, index)
    /\ UNCHANGED <<input, tokens, pc, lexed, parsed, cursor, result, evaluated, diagnostic, compiled>>

LexInvalidChar ==
    /\ InLoop
    /\ ByteAt(input, index) \notin OneByte
    /\ ~is_number(ByteAt(input, index))
    /\ ~is_space(ByteAt(input, index))
    /\ lexed' = invalid_char(input, index)
    /\ pc' = "lexed"
    /\ UNCHANGED <<input, index, tokens, parsed, cursor, result, evaluated, diagnostic, compiled>>

LexReturn ==
    /\ pc = "lex"
    /\ ~(index < Len(input))
    /\ lexed' = Ok(tokens)
    /\ pc' = "lexed"
    /\ UNCHANGED <<input, index, tokens, parsed, cursor, result, evaluated, diagnostic, compiled>>

----------------------------------------------------------------------------
(* The rest of the pipeline: from_str, then the evaluator, the compiler or  *)
(* the diagnostic.                                                         *)

\* from_str, from the return of lex on
FromStr ==
    /\ pc = "lexed"
    /\ LET r == from_str(lexed)
       IN  /\ result' = r.res
           /\ parsed' = r.parsed
           /\ cursor' = r.cursor
    /\ pc' = "done"
    /\ UNCHANGED <<input, index, tokens, lexed, evaluated, diagnostic, compiled>>

\* parse called on a token vector
Parse ==
    /\ pc = "parse"
    /\ LET r == parse(tokens)
       IN  /\ result' = r.res
           /\ cursor' = r.pos
    /\ parsed' = TRUE
    /\ pc' = "done"
    /\ UNCHANGED <<input, index, tokens, lexed, evaluated, diagnostic, compiled>>

Eval ==
    /\ pc = "done"
    /\ result.ok
    /\ evaluated' = eval(result.val)
    /\ pc' = "evaluated"
    /\ UNCHANGED <<input, index, tokens, lexed, parsed, cursor, result, diagnostic, compiled>>

Compile ==
    /\ pc = "done"
    /\ result.ok
    /\ compiled' = compile(result.val)
    /\ pc' = "compiled"
    /\ UNCHANGED <<input, index, tokens, lexed, parsed, cursor, result, evaluated, diagnostic>>

ShowDiagnostic ==
    /\ pc = "done"
    /\ ~result.ok
    /\ diagnostic' = show_diagnostic(result.err, input)
    /\ pc' = "shown"
    /\ UNCHANGED <<input, index, tokens, lexed, parsed, cursor, result, evaluated, compiled>>

----------------------------------------------------------------------------
(* The text pipeline: every text of at most MaxLen bytes, and the long     *)
(* digit runs of LongTexts, go through lex,                                *)
(* from_str and then the evaluator, the compiler or show_diagnostic.       *)

\* the text "18446744073709551616" of u64::MAX + 1
AboveU64Max ==
    [k \in 1..Len(U64_MAX_DIGITS) |->
        B_ZERO + U64_MAX_DIGITS[k] + (IF k = Len(U64_MAX_DIGITS) THEN 1 ELSE 0)]

\* texts with a digit run as long as u64::MAX or longer: u64::MAX + 1 alone,
\* after "1+", before "@" and before " 1", 2 * 10^19, 10^20, and the
\* values 1 and 0 written with leading zeros
LongTexts ==
    { AboveU64Max,
      <<B_ZERO + 1, B_PLUS>> \o AboveU64Max,
      AboveU64Max \o <<64>>,
      AboveU64Max \o <<B_SPACE, B_ZERO + 1>>,
      <<B_ZERO + 2>> \o repeat(B_ZERO, Len(U64_MAX_DIGITS) - 1),
      <<B_ZERO + 1>> \o repeat(B_ZERO, Len(U64_MAX_DIGITS)),
      repeat(B_ZERO, Len(U64_MAX_DIGITS)) \o <<B_ZERO + 1>>,
      repeat(B_ZERO, Len(U64_MAX_DIGITS) + 1) }

Init ==
    /\ \/ \E k \in 0..MaxLen : input \in [1..k -> Bytes]
       \/ input \in LongTexts
    /\ index = 0
    /\ tokens = <<>>
    /\ pc = "lex"
    /\ lexed = None
    /\ parsed = FALSE
    /\ cursor = 0
    /\ result = None
    /\ evaluated = None
    /\ diagnostic = None
    /\ compiled = None

Next ==
    \/ LexOneByte
    \/ LexNumber
    \/ LexSkipSpaces
    \/ LexInvalidChar
    \/ LexReturn
    \/ FromStr
    \/ Eval
    \/ Compile
    \/ ShowDiagnostic

Spec == Init /\ [][Next]_vars

----------------------------------------------------------------------------
(* parse called directly on token vectors: every vector of at most MaxToks *)
(* tokens laid out on one line a blank apart, and the longer Scenarios.    *)

Number(n) == [kind |-> "Number", n |-> n]
Plus == [kind |-> "Plus"]
Minus == [kind |-> "Minus"]
Asterisk == [kind |-> "Asterisk"]
Slash == [kind |-> "Slash"]
LParen == [kind |-> "LParen"]
RParen == [kind |-> "RParen"]

TokenKinds == {Number(0), Number(1), Plus, Minus, Asterisk, Slash, LParen, RParen}

\* the number of bytes a token of this kind spans
RECURSIVE digits(_)
digits(n) == IF n < 10 THEN 1 ELSE 1 + digits(n \div 10)

width(kind) == IF kind.kind = "Number" THEN digits(kind.n) ELSE 1

\* the tokens of the kinds ks, the first at byte start, gap bytes of blanks
\* between one and the next
RECURSIVE layout(_, _, _)
layout(ks, start, gap) ==
    IF ks = <<>> THEN <<>>
    ELSE <<Annotation(Head(ks), Location(start, start + width(Head(ks))))>>
         \o layout(Tail(ks), start + width(Head(ks)) + gap, gap)

BinaryKinds == {Plus, Minus, Asterisk, Slash}

\* the tokens of "1 + 2 * 3 - -10" (test_parser)
TestTokens ==
    << TokenNumber(1, Location(0, 1)), TokenPlus(Location(2, 3)),
       TokenNumber(2, Location(4, 5)), TokenAsterisk(Location(6, 7)),
       TokenNumber(3, Location(8, 9)), TokenMinus(Location(10, 11)),
       TokenMinus(Location(12, 13)), TokenNumber(10, Location(13, 15)) >>

\* the tokens of "1 2", "(1 + 2", "1 - 2 - 3" and "1 + 2 * 3"
TwoNumbers == <<TokenNumber(1, Location(0, 1)), TokenNumber(2, Location(2, 3))>>

OpenSum ==
    << TokenLParen(Location(0, 1)), TokenNumber(1, Location(1, 2)),
       TokenPlus(Location(3, 4)), TokenNumber(2, Location(5, 6)) >>

SubSub == layout(<<Number(1), Minus, Number(2), Minus, Number(3)>>, 0, 1)

SumProduct == layout(<<Number(1), Plus, Number(2), Asterisk, Number(3)>>, 0, 1)

\* the tree test_parser expects for TestTokens
TestAst ==
    AstBinary(
        BinaryOperatorSub(Location(10, 11)),
        AstBinary(
            BinaryOperatorAdd(Location(2, 3)),
            AstNum(1, Location(0, 1)),
            AstBinary(
                BinaryOperatorMulti(Location(6, 7)),
                AstNum(2, Location(4, 5)),
                AstNum(3, Location(8, 9)),
                Location(4, 9)),
            Location(0, 9)),
        AstUnary(
            UnaryOperatorMinus(Location(12, 13)),
            AstNum(10, Location(13, 15)),
            Location(12, 15)),
        Location(0, 15))

\* longer token vectors and the examples: the test's, every chain of four
\* operands, products and quotients with a parenthesized operand, a signed
\* parenthesis
Scenarios ==
    {TestTokens, TwoNumbers, OpenSum, SubSub, SumProduct}
    \cup {layout(<<Number(1), o1, Number(0), o2, Number(1), o3, Number(0)>>, 0, 1) :
            o1 \in BinaryKinds, o2 \in BinaryKinds, o3 \in BinaryKinds}
    \cup {layout(<<LParen, Number(1), o1, Number(1), RParen, o2, Number(0)>>, 0, 0) :
            o1 \in BinaryKinds, o2 \in BinaryKinds}
    \cup {layout(<<Number(1), o1, LParen, Number(1), o2, Number(0), RParen>>, 0, 0) :
            o1 \in BinaryKinds, o2 \in BinaryKinds}
    \cup {layout(<<s, LParen, Number(1), o1, Number(1), RParen>>, 0, 0) :
            s \in {Plus, Minus}, o1 \in BinaryKinds}

InitParse ==
    /\ \/ \E k \in 0..MaxToks : \E ks \in [1..k -> TokenKinds] : tokens = layout(ks, 0, 1)
       \/ tokens \in Scenarios
    /\ input = <<>>
    /\ index = 0
    /\ pc = "parse"
    /\ lexed = None
    /\ parsed = FALSE
    /\ cursor = 0
    /\ result = None
    /\ evaluated = None
    /\ diagnostic = None
    /\ compiled = None

NextParse ==
    \/ Parse
    \/ Eval
    \/ Compile

SpecParse == InitParse /\ [][NextParse]_vars

----------------------------------------------------------------------------
(* Vocabulary of the properties. *)

\* lex has returned
LexDone == pc \in {"lexed", "done", "evaluated", "compiled", "shown"}

\* from_str or parse has returned
ParseDone == pc \in {"done", "evaluated", "compiled", "shown"}

DigitBytes == B_ZERO..B_NINE
BlankBytes == {B_SPACE, B_TAB, B_NEWLINE}
KnownBytes == DigitBytes \cup BlankBytes \cup OneByte

\* the token kind of an operator or parenthesis byte
KindOfByte(b) ==
    CASE b = B_PLUS -> "Plus" [] b = B_MINUS -> "Minus" [] b = B_ASTERISK -> "Asterisk"
      [] b = B_SLASH -> "Slash" [] b = B_LPAREN -> "LParen" [] b = B_RPAREN -> "RParen"
      [] OTHER -> "none"

RECURSIVE Pow10(_)
Pow10(k) == IF k = 0 THEN 1 ELSE 10 * Pow10(k - 1)

\* the decimal value of the digits in[s..e): the sum of digit * 10^place
RECURSIVE DecimalValue(_, _, _)
DecimalValue(in, s, e) ==
    IF e <= s THEN 0
    ELSE (IF ByteAt(in, s) = B_ZERO THEN 0 ELSE (ByteAt(in, s) - B_ZERO) * Pow10(e - s - 1))
         + DecimalValue(in, s + 1, e)

\* the tokens whose span holds byte i of the input
Covering(ts, i) == {k \in 1..Len(ts) : ts[k].location[1] <= i /\ i < ts[k].location[2]}

----------------------------------------------------------------------------
(* C1: on an input made only of digits, + - * / ( ) and blanks, lex returns *)
(* Ok(tokens): the spans are in strictly increasing order and disjoint,    *)
(* every byte that is not a blank lies in exactly one span and no blank in *)
(* any; an operator or parenthesis token spans [i, i+1) and has the kind   *)
(* of byte i; a Number token spans a maximal run of digits and holds its   *)
(* decimal value, so no two Number tokens are adjacent.                    *)
C1_LexTiles ==
    (LexDone /\ \A i \in 1..Len(input) : input[i] \in KnownBytes) =>
        /\ lexed.ok
        /\ LET ts == lexed.val
           IN  /\ \A k \in 1..Len(ts) :
                    /\ 0 <= ts[k].location[1]
                    /\ ts[k].location[1] < ts[k].location[2]
                    /\ ts[k].location[2] <= Len(input)
               /\ \A k \in 1..(Len(ts) - 1) : ts[k].location[2] <= ts[k + 1].location[1]
               /\ \A i \in 0..(Len(input) - 1) :
                    IF ByteAt(input, i) \in BlankBytes
                    THEN Covering(ts, i) = {}
                    ELSE Cardinality(Covering(ts, i)) = 1
               /\ \A k \in 1..Len(ts) :
                    LET s == ts[k].location[1]
                        e == ts[k].location[2]
                    IN  IF ts[k].value.kind = "Number"
                        THEN /\ \A i \in s..(e - 1) : ByteAt(input, i) \in DigitBytes
                             /\ s = 0 \/ ByteAt(input, s - 1) \notin DigitBytes
                             /\ e = Len(input) \/ ByteAt(input, e) \notin DigitBytes
                             /\ ts[k].value.n = DecimalValue(input, s, e)
                        ELSE /\ e = s + 1
                             /\ ts[k].value.kind = KindOfByte(ByteAt(input, s))
               /\ \A k \in 1..(Len(ts) - 1) :
                    (ts[k].value.kind = "Number" /\ ts[k + 1].value.kind = "Number")
                        => ts[k].location[2] < ts[k + 1].location[1]

\* "10 +" and the like: a number of two digits, blanks, then an operator
C1_Witness ==
    /\ pc = "lexed"
    /\ lexed.ok
    /\ Len(lexed.val) = 2
    /\ lexed.val[1] = TokenNumber(10, Location(0, 2))
    /\ lexed.val[2] = TokenPlus(Location(3, 4))

----------------------------------------------------------------------------
----------------------------------------------------------------------------
(* Vocabulary of the properties about trees. *)

\* the node and every node below it
RECURSIVE SubTrees(_)
SubTrees(ast) ==
    CASE ast.value.kind = "Num" -> {ast}
      [] ast.value.kind = "Unary" -> {ast} \cup SubTrees(ast.value.operand)
      [] ast.value.kind = "Binary" ->
            {ast} \cup SubTrees(ast.value.left) \cup SubTrees(ast.value.right)

IsBinary(ast, ops) == ast.value.kind = "Binary" /\ ast.value.operator.value \in ops

AddSub == {"Add", "Sub"}
MultiDiv == {"Multi", "Div"}

\* the binary operator a token stands for
OperatorOf(tok) ==
    Annotation(CASE tok.value.kind = "Plus" -> "Add" [] tok.value.kind = "Minus" -> "Sub"
                 [] tok.value.kind = "Asterisk" -> "Multi" [] tok.value.kind = "Slash" -> "Div",
               tok.location)

\* ts is number, operator, number, ..., number with every operator in kinds
IsChain(ts, kinds) ==
    /\ Len(ts) % 2 = 1
    /\ \A k \in 1..Len(ts) :
          IF k % 2 = 1 THEN ts[k].value.kind = "Number" ELSE ts[k].value.kind \in kinds

\* the chain of the first n tokens grouped to the left
RECURSIVE LeftChain(_, _)
LeftChain(ts, n) ==
    IF n = 1 THEN AstNum(ts[1].value.n, ts[1].location)
    ELSE AstBinary(OperatorOf(ts[n - 1]), LeftChain(ts, n - 2),
                   AstNum(ts[n].value.n, ts[n].location),
                   Location(ts[1].location[1], ts[n].location[2]))

\* the parentheses of ts[a..b] match each other
RECURSIVE BalancedFrom(_, _, _, _)
BalancedFrom(ts, a, b, depth) ==
    IF a > b THEN depth = 0
    ELSE LET d == CASE ts[a].value.kind = "LParen" -> depth + 1
                    [] ts[a].value.kind = "RParen" -> depth - 1
                    [] OTHER -> depth
         IN  d >= 0 /\ BalancedFrom(ts, a + 1, b, d)

\* the node was parsed from a parenthesized expression of ts: its tokens,
\* widened by the parentheses of its own first and last atom, lie between a
\* "(" and the ")" matching it
Parenthesized(ts, node) ==
    \E k \in 1..Len(ts), m \in 1..Len(ts) :
        /\ ts[k].location[1] = node.location[1]
        /\ ts[m].location[2] = node.location[2]
        /\ \E a \in 2..k, b \in m..(Len(ts) - 1) :
              /\ \A j \in a..(k - 1) : ts[j].value.kind = "LParen"
              /\ \A j \in (m + 1)..b : ts[j].value.kind = "RParen"
              /\ BalancedFrom(ts, a, b, 0)
              /\ ts[a - 1].value.kind = "LParen"
              /\ ts[b + 1].value.kind = "RParen"

\* the smallest span holding a and b
SmallestSpan(a, b) ==
    << CHOOSE x \in {a[1], b[1]} : \A y \in {a[1], b[1]} : x <= y,
       CHOOSE x \in {a[2], b[2]} : \A y \in {a[2], b[2]} : x >= y >>

Contains(outer, inner) == outer[1] <= inner[1] /\ inner[2] <= outer[2]

----------------------------------------------------------------------------
(* C3: binary operators of one precedence level group left to right: a     *)
(* chain a op b op c ... of numbers with every operator in {+, -}, or every *)
(* operator in {*, /}, parses to the chain folded to the left, whatever its *)
(* length; "1 - 2 - 3" gives Binary(Sub, Binary(Sub, 1, 2), 3); and in no   *)
(* tree is the right operand of a node a node of the same level, unless it  *)
(* was parenthesized.                                                       *)
C3_LeftAssociative ==
    ParseDone =>
        /\ (IsChain(tokens, {"Plus", "Minus"}) \/ IsChain(tokens, {"Asterisk", "Slash"}))
              => result = Ok(LeftChain(tokens, Len(tokens)))
        /\ tokens = SubSub =>
              result = Ok(AstBinary(BinaryOperatorSub(Location(6, 7)),
                                    AstBinary(BinaryOperatorSub(Location(2, 3)),
                                              AstNum(1, Location(0, 1)),
                                              AstNum(2, Location(4, 5)),
                                              Location(0, 5)),
                                    AstNum(3, Location(8, 9)),
                                    Location(0, 9)))
        /\ result.ok =>
              \A n \in SubTrees(result.val) :
                  \A level \in {AddSub, MultiDiv} :
                      (IsBinary(n, level) /\ IsBinary(n.value.right, level))
                          => Parenthesized(tokens, n.value.right)

\* a chain of four numbers and three operators of one level has been parsed
C3_Witness ==
    /\ pc = "done"
    /\ Len(tokens) = 7
    /\ IsChain(tokens, {"Plus", "Minus"})
    /\ tokens[2].value.kind = "Minus"
    /\ tokens[4].value.kind = "Plus"
    /\ result.ok
    /\ IsBinary(result.val.value.left, AddSub)
    /\ IsBinary(result.val.value.left.value.left, AddSub)

----------------------------------------------------------------------------
(* C4: * and / bind tighter than + and -, and a sign tighter than either:  *)
(* in every tree parse returns, no operand of a Multi or Div node is an    *)
(* Add or Sub node, and no operand of a Unary node is a Binary node,       *)
(* unless the operand was parenthesized; "1 + 2 * 3" gives                 *)
(* Binary(Add, 1, Binary(Multi, 2, 3)) and "1 + 2 * 3 - -10" the tree of   *)
(* test_parser.                                                            *)
C4_Precedence ==
    ParseDone =>
        /\ result.ok =>
              \A n \in SubTrees(result.val) :
                  /\ IsBinary(n, MultiDiv) =>
                        \A c \in {n.value.left, n.value.right} :
                            IsBinary(c, AddSub) => Parenthesized(tokens, c)
                  /\ n.value.kind = "Unary" =>
                        (n.value.operand.value.kind = "Binary"
                            => Parenthesized(tokens, n.value.operand))
        /\ tokens = SumProduct =>
              result = Ok(AstBinary(BinaryOperatorAdd(Location(2, 3)),
                                    AstNum(1, Location(0, 1)),
                                    AstBinary(BinaryOperatorMulti(Location(6, 7)),
                                              AstNum(2, Location(4, 5)),
                                              AstNum(3, Location(8, 9)),
                                              Location(4, 9)),
                                    Location(0, 9)))
        /\ tokens = TestTokens => result = Ok(TestAst)

\* the tokens of "1 + 2 * 3 - -10" have been parsed
C4_Witness == pc = "done" /\ tokens = TestTokens /\ result = Ok(TestAst)

\* a product with a parenthesized sum as operand has been parsed
C4_WitnessParenthesized ==
    /\ pc = "done"
    /\ result.ok
    /\ IsBinary(result.val, MultiDiv)
    /\ IsBinary(result.val.value.right, AddSub)

----------------------------------------------------------------------------
(* C5: in every tree parse returns, the span of a Binary node is the merge *)
(* of its operands' spans, (min of starts, max of ends), and the span of a *)
(* Unary node the merge of its operator's and its operand's; so every node *)
(* has start <= end and contains the spans of its operator and of every    *)
(* node below it.                                                          *)
C5_SpanMerge ==
    (ParseDone /\ result.ok) =>
        \A n \in SubTrees(result.val) :
            /\ n.location[1] <= n.location[2]
            /\ n.value.kind = "Binary" =>
                  /\ n.location = SmallestSpan(n.value.left.location, n.value.right.location)
                  /\ Contains(n.location, n.value.operator.location)
            /\ n.value.kind = "Unary" =>
                  /\ n.location = SmallestSpan(n.value.operator.location,
                                               n.value.operand.location)
                  /\ Contains(n.location, n.value.operator.location)
            /\ \A d \in SubTrees(n) : Contains(n.location, d.location)

\* a tree with a Unary node below a Binary node below a Binary node
C5_Witness ==
    /\ pc = "done"
    /\ result.ok
    /\ result.val.value.kind = "Binary"
    /\ result.val.value.left.value.kind = "Binary"
    /\ result.val.value.right.value.kind = "Unary"
    /\ result.val.location[1] < result.val.value.right.location[1]

----------------------------------------------------------------------------
(* C6: parse returns Ok only with every token taken; when the top-level    *)
(* expression is complete and a token remains, parse returns               *)
(* RedundantExpression with the first remaining token ("1 2": Number(2) at *)
(* 2-3); and inside parentheses a token other than ")" after the complete  *)
(* inner expression gives RedundantExpression with that token.             *)
C6_Redundant ==
    ParseDone =>
        /\ result.ok => cursor = Len(tokens)
        /\ LET top == parse_expr(tokens, 0)
           IN  /\ (top.res.ok /\ top.pos < Len(tokens))
                     => result = Err(ParseError("RedundantExpression", tokens[top.pos + 1]))
               /\ result.ok => (top.res.ok /\ top.pos = Len(tokens))
        /\ tokens = TwoNumbers =>
              result = Err(ParseError("RedundantExpression", TokenNumber(2, Location(2, 3))))
        /\ (Len(tokens) >= 1 /\ tokens[1].value.kind = "LParen") =>
              LET inner == parse_expr(tokens, 1)
              IN  (/\ inner.res.ok
                   /\ inner.pos < Len(tokens)
                   /\ tokens[inner.pos + 1].value.kind # "RParen")
                      => result = Err(ParseError("RedundantExpression", tokens[inner.pos + 1]))

\* the tokens of "1 2" have been parsed
C6_Witness ==
    /\ pc = "done"
    /\ tokens = TwoNumbers
    /\ result = Err(ParseError("RedundantExpression", tokens[2]))

\* "( 1 1" and the like: a second number inside the parentheses
C6_WitnessInner ==
    /\ pc = "done"
    /\ Len(tokens) >= 3
    /\ tokens[1].value.kind = "LParen"
    /\ tokens[3].value.kind = "Number"
    /\ result = Err(ParseError("RedundantExpression", tokens[3]))

----------------------------------------------------------------------------
(* Vocabulary of C7: token vectors that end inside open parentheses.       *)

OperatorKinds == {"Plus", "Minus", "Asterisk", "Slash"}

\* ts[from..] is number, operator, ..., operator: it ends after an operator
IsDangling(ts) ==
    /\ Len(ts) >= 2
    /\ Len(ts) % 2 = 0
    /\ \A k \in 1..Len(ts) :
          IF k % 2 = 1 THEN ts[k].value.kind = "Number"
          ELSE ts[k].value.kind \in OperatorKinds

\* the number of "(" tokens ts begins with
RECURSIVE Opened(_)
Opened(ts) ==
    IF ts # <<>> /\ Head(ts).value.kind = "LParen" THEN 1 + Opened(Tail(ts)) ELSE 0

\* what follows the opening parentheses
Inside(ts) == SubSeq(ts, Opened(ts) + 1, Len(ts))

\* ts is one or more "(" and then nothing, a chain ending after an operator,
\* or a complete chain: the input ends with every "(" unmatched
EndsOpen(ts) ==
    /\ Opened(ts) >= 1
    /\ \/ Inside(ts) = <<>>
       \/ IsDangling(Inside(ts))
       \/ IsChain(Inside(ts), OperatorKinds)

----------------------------------------------------------------------------
(* C7, as claimed: whenever a "(" was opened and the tokens end before its *)
(* ")", parse fails with UnclosedOpenParen carrying an unmatched "(",      *)
(* wherever the input ends: directly after "(", after an operator, after a *)
(* complete inner expression.                                              *)
C7_AsClaimed ==
    (ParseDone /\ EndsOpen(tokens)) =>
        \E k \in 1..Opened(tokens) :
            result = Err(ParseError("UnclosedOpenParen", tokens[k]))

(* C7, amended: when the tokens end after the complete inner expression of *)
(* an open "(", parse fails with UnclosedOpenParen carrying that "(" (the  *)
(* innermost one); when they end directly after "(" or after an operator,  *)
(* parse fails with Eof.                                                   *)
C7_UnclosedAfterInner ==
    (ParseDone /\ EndsOpen(tokens)) =>
        IF IsChain(Inside(tokens), OperatorKinds)
        THEN result = Err(ParseError("UnclosedOpenParen", tokens[Opened(tokens)]))
        ELSE result = Err(ParseErrorEof)

\* the tokens of "(1 + 2" have been parsed
C7_Witness ==
    /\ pc = "done"
    /\ tokens = OpenSum
    /\ result = Err(ParseError("UnclosedOpenParen", TokenLParen(Location(0, 1))))

----------------------------------------------------------------------------
(* C8: from_str runs lex, then parse, and fails fast: when lex fails with  *)
(* e the result is ApplicationError::Lexer(e) and parse is not run, also   *)
(* when the tokens before the bad byte are no expression; when parse fails *)
(* with e the result is ApplicationError::Parser(e); else it is the tree   *)
(* parse returned.  The inner error is carried unchanged.                  *)
C8_FailFast ==
    ParseDone =>
        IF ~lexed.ok
        THEN /\ result = [ok |-> FALSE, err |-> [stage |-> "Lexer", e |-> lexed.err]]
             /\ ~parsed
        ELSE /\ parsed
             /\ LET p == parse(lexed.val).res
                IN  IF p.ok
                    THEN result = p
                    ELSE result = [ok |-> FALSE, err |-> [stage |-> "Parser", e |-> p.err]]

\* ")@" and the like: the tokens lexed before the bad byte are no expression
C8_Witness ==
    /\ pc = "done"
    /\ ~lexed.ok
    /\ tokens # <<>>
    /\ parse(tokens).res = Err(ParseError("NotExpression", tokens[1]))
    /\ result.err.stage = "Lexer"
    /\ tokens[1].location[2] <= result.err.e.location[1]

----------------------------------------------------------------------------
(* C9: show_diagnostic underlines the error's own span for a lexer error,  *)
(* the token's span for UnexpectedToken, NotExpression, NotOperator and    *)
(* UnclosedOpenParen, [tok.start, len(input)) for RedundantExpression and  *)
(* [len(input), len(input) + 1) for Eof; the line under the input is       *)
(* span.start blanks and then span.end - span.start carets, and            *)
(* span.start <= span.end, so the count of carets is never negative.       *)
C9_Underline ==
    pc = "shown" =>
        LET e == result.err
            n == Len(input)
            span == CASE e.stage = "Lexer" -> e.e.location
                      [] e.stage = "Parser" /\ e.e.kind = "RedundantExpression" ->
                            <<e.e.tok.location[1], n>>
                      [] e.stage = "Parser" /\ e.e.kind = "Eof" -> <<n, n + 1>>
                      [] OTHER -> e.e.tok.location
        IN  /\ span[1] <= span[2]
            /\ ~diagnostic.panic
            /\ diagnostic.loc = span
            /\ diagnostic.line1 = input
            /\ Len(diagnostic.line2) = span[2]
            /\ \A i \in 1..span[2] :
                  diagnostic.line2[i] = IF i <= span[1] THEN B_SPACE ELSE B_CARET

\* "1 1 " and the like: the underline of RedundantExpression reaches the end
\* of the input, past its token
C9_Witness ==
    /\ pc = "shown"
    /\ result.err.stage = "Parser"
    /\ result.err.e.kind = "RedundantExpression"
    /\ diagnostic.loc[1] = result.err.e.tok.location[1]
    /\ diagnostic.loc[2] = Len(input)
    /\ result.err.e.tok.location[2] < Len(input)

----------------------------------------------------------------------------
(* Vocabulary of C10: the value of a tree and the order it is evaluated in *)

\* the quotient of a by b # 0 rounded towards zero
Quotient(a, b) ==
    LET m == IF a < 0 THEN -a ELSE a
    IN  CHOOSE q \in (-m)..m :
            LET r == a - q * b
            IN  /\ (IF r < 0 THEN -r ELSE r) < (IF b < 0 THEN -b ELSE b)
                /\ r = 0 \/ (r < 0) = (a < 0)

\* the value of a tree, a quotient by zero counting as 0
RECURSIVE Val(_)
Val(ast) ==
    CASE ast.value.kind = "Num" -> ast.value.n
      [] ast.value.kind = "Unary" ->
            IF ast.value.operator.value = "Minus"
            THEN -Val(ast.value.operand) ELSE Val(ast.value.operand)
      [] ast.value.kind = "Binary" ->
            LET l == Val(ast.value.left)
                r == Val(ast.value.right)
            IN  CASE ast.value.operator.value = "Add" -> l + r
                  [] ast.value.operator.value = "Sub" -> l - r
                  [] ast.value.operator.value = "Multi" -> l * r
                  [] ast.value.operator.value = "Div" -> IF r = 0 THEN 0 ELSE Quotient(l, r)

\* the nodes in the order their evaluation ends: left, right, then the node
RECURSIVE PostOrder(_)
PostOrder(ast) ==
    CASE ast.value.kind = "Num" -> <<ast>>
      [] ast.value.kind = "Unary" -> PostOrder(ast.value.operand) \o <<ast>>
      [] ast.value.kind = "Binary" ->
            PostOrder(ast.value.left) \o PostOrder(ast.value.right) \o <<ast>>

\* a Div node whose right operand is zero
DividesByZero(n) == IsBinary(n, {"Div"}) /\ Val(n.value.right) = 0

----------------------------------------------------------------------------
(* C10: eval fails only with DivisionByZero, exactly when a Div node's     *)
(* right operand evaluates to 0; the error carries the span of that Div    *)
(* node ("1 / 0": 0-5) and comes unchanged through the nodes above; of     *)
(* several such Div nodes the one reported is the first in the order of    *)
(* evaluation, left operand before right, operands before the node.        *)
C10_DivisionByZero ==
    pc = "evaluated" =>
        LET po == PostOrder(result.val)
            failing == {i \in 1..Len(po) : DividesByZero(po[i])}
        IN  /\ IF failing = {}
               THEN evaluated = [ok |-> TRUE, val |-> Val(result.val)]
               ELSE LET first == CHOOSE i \in failing : \A j \in failing : i <= j
                    IN  evaluated = [ok |-> FALSE,
                                     err |-> [value |-> "DivisionByZero",
                                              location |-> po[first].location]]
            /\ tokens = layout(<<Number(1), Slash, Number(0)>>, 0, 1) =>
                  evaluated = [ok |-> FALSE,
                               err |-> [value |-> "DivisionByZero", location |-> <<0, 5>>]]

\* "1 / 0 + 1 / 0": both quotients divide by zero, the left one is reported
C10_Witness ==
    /\ pc = "evaluated"
    /\ tokens = layout(<<Number(1), Slash, Number(0), Plus, Number(1), Slash, Number(0)>>, 0, 1)
    /\ evaluated = Err(InterpreterError("DivisionByZero", Location(0, 5)))

----------------------------------------------------------------------------
(* Vocabulary of the compiler's properties. *)

\* the digit byte of d
Digit(d) == B_ZERO + d

\* the text "1 2 3 * + -10"
RpnWithoutRootOperator ==
    <<Digit(1), B_SPACE, Digit(2), B_SPACE, Digit(3), B_SPACE, B_ASTERISK, B_SPACE,
      B_PLUS, B_SPACE, B_MINUS, Digit(1), Digit(0)>>

\* the text "1 2 3 * + -10 -"
RpnOfTest == RpnWithoutRootOperator \o <<B_SPACE, B_MINUS>>

\* the byte that stands for an operator of the tree
ByteOfOperator(operator) ==
    CASE operator.value \in {"Add", "Plus"} -> B_PLUS
      [] operator.value \in {"Sub", "Minus"} -> B_MINUS
      [] operator.value = "Multi" -> B_ASTERISK
      [] operator.value = "Div" -> B_SLASH

\* the text the emission rules give for a tree: a number as its decimal
\* text, a sign directly before its operand, a binary node as left, blank,
\* right, blank, operator
RECURSIVE Rpn(_)
Rpn(ast) ==
    CASE ast.value.kind = "Num" ->
           [i \in 1..digits(ast.value.n) |->
               Digit((ast.value.n \div Pow10(digits(ast.value.n) - i)) % 10)]
      [] ast.value.kind = "Unary" ->
           <<ByteOfOperator(ast.value.operator)>> \o Rpn(ast.value.operand)
      [] ast.value.kind = "Binary" ->
           Rpn(ast.value.left) \o <<B_SPACE>> \o Rpn(ast.value.right)
             \o <<B_SPACE, ByteOfOperator(ast.value.operator)>>

----------------------------------------------------------------------------
(* C11 as the specification states it: compiling the tree of               *)
(* "1 + 2 * 3 - -10" yields exactly "1 2 3 * + -10".                       *)

C11_AsClaimed ==
    (pc = "compiled" /\ tokens = TestTokens) => compiled = RpnWithoutRootOperator

(* C11: compiling the tree of "1 + 2 * 3 - -10" yields exactly             *)
(* "1 2 3 * + -10 -", the operator of the root closing the text; for every *)
(* tree compile emits a number as its decimal text, a unary node as the    *)
(* operator directly followed by the operand, and a binary node as left,   *)
(* blank, right, blank, operator.                                          *)

C11_Rpn ==
    pc = "compiled" =>
        /\ compiled = Rpn(result.val)
        /\ tokens = TestTokens => compiled = RpnOfTest

C11_Witness ==
    /\ pc = "compiled"
    /\ tokens = TestTokens
    /\ result = Ok(TestAst)
    /\ compiled = RpnOfTest

----------------------------------------------------------------------------
(* Vocabulary of the round trip through parentheses. *)

\* the tokens moved by d bytes
Shifted(ts, d) ==
    [i \in 1..Len(ts) |->
        Annotation(ts[i].value, Location(ts[i].location[1] + d, ts[i].location[2] + d))]

\* "(" ts ")": the parentheses take one byte each, ts moves one byte on
Wrapped(ts) ==
    <<Annotation(LParen, Location(ts[1].location[1], ts[1].location[1] + 1))>>
    \o Shifted(ts, 1)
    \o <<Annotation(RParen, Location(ts[Len(ts)].location[2] + 1, ts[Len(ts)].location[2] + 2))>>

\* ts wrapped n times
RECURSIVE WrappedTimes(_, _)
WrappedTimes(ts, n) == IF n = 0 THEN ts ELSE Wrapped(WrappedTimes(ts, n - 1))

\* a tree without its spans: node kinds, operators, numbers and structure
RECURSIVE Shape(_)
Shape(ast) ==
    CASE ast.value.kind = "Num" -> <<"Num", ast.value.n>>
      [] ast.value.kind = "Unary" ->
           <<"Unary", ast.value.operator.value, Shape(ast.value.operand)>>
      [] ast.value.kind = "Binary" ->
           <<"Binary", ast.value.operator.value, Shape(ast.value.left),
             Shape(ast.value.right)>>

(* C12: when parse accepts a token sequence e, it also accepts e wrapped   *)
(* in one or more pairs of parentheses (spans shifted accordingly), and    *)
(* the tree of the wrapped sequence has the same node kinds, operators,    *)
(* numbers and structure as the tree of e.                                 *)

C12_RoundTrip ==
    (pc = "done" /\ parsed /\ result.ok) =>
        \A n \in 1..MaxNest :
            LET r == parse(WrappedTimes(tokens, n))
            IN  /\ r.res.ok
                /\ Shape(r.res.val) = Shape(result.val)
                /\ r.pos = Len(tokens) + 2 * n

C12_Witness ==
    /\ pc = "done"
    /\ tokens = SumProduct
    /\ result.ok
    /\ parse(WrappedTimes(tokens, MaxNest)).res.ok
    /\ Shape(parse(WrappedTimes(tokens, MaxNest)).res.val) = Shape(result.val)
    /\ parse(WrappedTimes(tokens, MaxNest)).res.val # result.val

----------------------------------------------------------------------------
(* C13: lex is total: the scan never panics, also on digit runs of any     *)
(* length, the index never passes the length of the input, and lex returns *)
(* either one error or the complete token sequence with the whole input    *)
(* scanned.                                                                *)

C13_Total ==
    /\ pc # "panic"
    /\ index <= Len(input)
    /\ LexDone => \/ ~lexed.ok
                  \/ lexed.ok /\ lexed.val = tokens /\ index = Len(input)

\* every iteration of the scan loop that does not return advances the index
\* by at least one byte, never past the length of the input
C13_Progress ==
    [][(pc = "lex" /\ pc' = "lex") => (index < index' /\ index' <= Len(input))]_vars

----------------------------------------------------------------------------
(* C14: every node of the tree returned for a text spans exactly the text  *)
(* it was built from: the root spans from the start of the first token to  *)
(* the end of the last one, and every node spans from the start of a token *)
(* to the end of a token with the parentheses between them balanced, the   *)
(* "(" and ")" of a parenthesized node or operand included.                *)

C14_SpansCoverSource ==
    (ParseDone /\ parsed /\ result.ok) =>
        /\ result.val.location =
               Location(tokens[1].location[1], tokens[Len(tokens)].location[2])
        /\ \A n \in SubTrees(result.val) :
              \E k \in 1..Len(tokens), m \in 1..Len(tokens) :
                  /\ tokens[k].location[1] = n.location[1]
                  /\ tokens[m].location[2] = n.location[2]
                  /\ BalancedFrom(tokens, k, m, 0)

----------------------------------------------------------------------------
(* Vocabulary of the cursor's properties. *)

\* what the two operator parsers return when entered at position p
OperatorRules(ts, p) == {parse_expr3_op(ts, p), parse_expr2_op(ts, p)}

\* what the expression rules return when entered at position p
ExpressionRules(ts, p) ==
    {parse_expr3(ts, p), parse_expr2(ts, p), parse_expr1(ts, p), parse_atom(ts, p)}

\* the rule moved the cursor forward only, within the token sequence, and
\* past at least one token where it returned Ok
Forward(ts, p, r) == p <= r.pos /\ r.pos <= Len(ts) /\ (r.res.ok => p < r.pos)

----------------------------------------------------------------------------
(* C15 as the specification states it: every grammar rule that returns an  *)
(* error leaves the cursor at the position it had when the rule was        *)
(* entered.                                                                *)

C15_AsClaimed ==
    (pc = "done" /\ parsed) =>
        \A p \in 0..Len(tokens) :
            \A r \in OperatorRules(tokens, p) \cup ExpressionRules(tokens, p) :
                /\ Forward(tokens, p, r)
                /\ ~r.res.ok => r.pos = p

(* C15: the cursor only moves forward, and a rule that returns Ok has      *)
(* advanced past the tokens it used; the operator parsers return their     *)
(* errors with the cursor where it was when they were entered; the         *)
(* expression rules take a token before they look at it, so the token     *)
(* rejected with NotExpression or RedundantExpression is the last one the  *)
(* rule has consumed, and only a rule entered at the end of the token      *)
(* sequence fails (with Eof) without having consumed a token.              *)

C15_Cursor ==
    (pc = "done" /\ parsed) =>
        /\ cursor <= Len(tokens)
        /\ \A p \in 0..Len(tokens) :
              /\ \A r \in OperatorRules(tokens, p) :
                    Forward(tokens, p, r) /\ (~r.res.ok => r.pos = p)
              /\ \A r \in ExpressionRules(tokens, p) :
                    /\ Forward(tokens, p, r)
                    /\ (~r.res.ok /\ r.pos = p) => (p = Len(tokens) /\ r.res.err.kind = "Eof")
                    /\ (~r.res.ok /\ r.res.err.kind \in {"NotExpression", "RedundantExpression"})
                           => (p < r.pos /\ r.res.err.tok = tokens[r.pos])

\* "1 )": the operator parsers refuse ")" without taking it, parse_atom
\* entered at ")" takes it and then rejects it
C15_Witness ==
    /\ pc = "done"
    /\ tokens = layout(<<Number(1), RParen>>, 0, 1)
    /\ ~parse_expr3_op(tokens, 1).res.ok
    /\ parse_expr3_op(tokens, 1).pos = 1
    /\ parse_atom(tokens, 1).res = Err(ParseError("NotExpression", tokens[2]))
    /\ parse_atom(tokens, 1).pos = 2
    /\ cursor = 2

----------------------------------------------------------------------------
(* Vocabulary of the signs' properties. *)

SignKinds == {"Plus", "Minus"}

\* an operand is due after ts: ts is empty or, after its opening
\* parentheses, empty or a chain ending after an operator
OperandDue(ts) == Inside(ts) = <<>> \/ IsDangling(Inside(ts))

\* ts[k] is a sign in operand position and ts[k + 1] is a sign too
StackedAt(ts, k) ==
    /\ k + 1 <= Len(ts)
    /\ ts[k].value.kind \in SignKinds
    /\ ts[k + 1].value.kind \in SignKinds
    /\ OperandDue(SubSeq(ts, 1, k - 1))

\* the unary operator a sign token stands for
SignOf(tok) ==
    Annotation(IF tok.value.kind = "Plus" THEN "Plus" ELSE "Minus", tok.location)

\* the unary nodes of a tree
UnaryNodes(ast) == {n \in SubTrees(ast) : n.value.kind = "Unary"}

\* a sign in operand position directly followed by a sign is rejected with
\* NotExpression carrying the second sign
StackedRejected ==
    \A k \in 1..Len(tokens) :
        StackedAt(tokens, k) => result = Err(ParseError("NotExpression", tokens[k + 1]))

\* two sign tokens in a row of an accepted sequence are a binary operator
\* and the sign of the unary node its right operand begins with
TwoSignsBinaryThenUnary ==
    result.ok =>
        \A k \in 1..(Len(tokens) - 1) :
            (tokens[k].value.kind \in SignKinds /\ tokens[k + 1].value.kind \in SignKinds) =>
                \E b \in SubTrees(result.val) :
                    /\ b.value.kind = "Binary"
                    /\ b.value.operator = OperatorOf(tokens[k])
                    /\ \E u \in UnaryNodes(b.value.right) :
                          /\ u.value.operator = SignOf(tokens[k + 1])
                          /\ u.location[1] = b.value.right.location[1]

----------------------------------------------------------------------------
(* C16 as the specification states it: stacked signs are rejected, two     *)
(* signs in a row are accepted only as binary operator and unary sign, and *)
(* in every tree returned the operand of a Unary node is never a Unary     *)
(* node.                                                                   *)

C16_AsClaimed ==
    (ParseDone /\ parsed) =>
        /\ StackedRejected
        /\ TwoSignsBinaryThenUnary
        /\ result.ok =>
              \A u \in UnaryNodes(result.val) : u.value.operand.value.kind # "Unary"

(* C16: a sign in operand position directly followed by another sign is    *)
(* rejected with NotExpression carrying the second sign; two sign tokens   *)
(* in a row are accepted only as a binary operator followed by the sign of *)
(* a unary node; the operand of a Unary node is a Unary node only where it *)
(* was written in parentheses, the token after the outer sign being "(".   *)

C16_SignsDoNotStack ==
    (ParseDone /\ parsed) =>
        /\ StackedRejected
        /\ TwoSignsBinaryThenUnary
        /\ result.ok =>
              \A u \in UnaryNodes(result.val) :
                  u.value.operand.value.kind = "Unary" =>
                      \E k \in 1..(Len(tokens) - 1) :
                          /\ tokens[k].location = u.value.operator.location
                          /\ tokens[k + 1].value.kind = "LParen"

\* "1 * - - 0" has been rejected at its second sign
C16_Witness ==
    /\ ParseDone
    /\ tokens = layout(<<Number(1), Asterisk, Minus, Minus, Number(0)>>, 0, 1)
    /\ StackedAt(tokens, 3)
    /\ result = Err(ParseError("NotExpression", tokens[4]))

\* "- ( - 1 )" has been accepted as a Unary node whose operand is one
C16_WitnessNested ==
    /\ ParseDone
    /\ tokens = layout(<<Minus, LParen, Minus, Number(1), RParen>>, 0, 1)
    /\ result.ok
    /\ result.val.value.kind = "Unary"
    /\ result.val.value.operand.value.kind = "Unary"

\* "1 - - 0" has been accepted as a subtraction of a negated number
C16_WitnessSubMinus ==
    /\ ParseDone
    /\ tokens = layout(<<Number(1), Minus, Minus, Number(0)>>, 0, 1)
    /\ result.ok
    /\ result.val.value.operator.value = "Sub"
    /\ result.val.value.right.value.kind = "Unary"

----------------------------------------------------------------------------
(* Vocabulary of the error kinds. *)

\* the error kinds parse returns
ReturnedKinds == {"Eof", "NotExpression", "UnclosedOpenParen", "RedundantExpression"}

\* the kinds of the tokens after which an atom is required
BeforeAtomKinds == OperatorKinds \cup {"LParen"}

(* C17: for every token sequence parse returns Ok or an error of one of    *)
(* the four kinds Eof, NotExpression, UnclosedOpenParen and                *)
(* RedundantExpression; NotOperator and UnexpectedToken are never          *)
(* returned; Eof is returned only when all tokens have been taken and the  *)
(* sequence is empty or ends with an operator, a sign or "(", where an     *)
(* atom is required.                                                       *)

C17_ErrorKinds ==
    (ParseDone /\ parsed) =>
        /\ result.ok \/ result.err.kind \in ReturnedKinds
        /\ (~result.ok /\ result.err.kind = "Eof") =>
              /\ cursor = Len(tokens)
              /\ tokens = <<>> \/ tokens[Len(tokens)].value.kind \in BeforeAtomKinds

\* "( 1 )": both operator parsers refuse ")" with NotOperator, the loops of
\* parse_left_binop end and parse returns Ok
C17_Witness ==
    /\ ParseDone
    /\ tokens = layout(<<LParen, Number(1), RParen>>, 0, 1)
    /\ parse_expr3_op(tokens, 2).res = Err(ParseError("NotOperator", tokens[3]))
    /\ parse_expr2_op(tokens, 2).res = Err(ParseError("NotOperator", tokens[3]))
    /\ result.ok

\* "1 +": the tokens end where an atom is required
C17_WitnessEof ==
    /\ ParseDone
    /\ tokens = layout(<<Number(1), Plus>>, 0, 1)
    /\ result = Err(ParseErrorEof)
    /\ cursor = Len(tokens)

====
